---- MODULE Spec2Model ----
(***************************************************************************)
(* A model of the validation-and-execution core of LLM-trader:             *)
(*   src/validation.py   validate_trades                                   *)
(*   src/trading_bot.py  cancel_bracket_orders_for_ticker,                 *)
(*                       reestablish_bracket_for_remaining_shares,         *)
(*                       execute_trade, main                               *)
(*                                                                         *)
(* Numbers.  Every Python number is held as an integer count of            *)
(* hundredths: a price of 200.00 is 20000, a quantity of 2.5 shares is     *)
(* 250, a quantity of 100 shares is 10000.  A Python value is a record     *)
(* [t, v]: t = "none" for None, "num" for an int or float (v its           *)
(* hundredths), "str" for a string that float()/int() cannot parse.        *)
(***************************************************************************)
EXTENDS Integers, Sequences, FiniteSets, TLC

VARIABLES
    \* ---- validate_trades (src/validation.py) ----
    trades,          \* the intents list passed in; its records are adjusted in place
    trades0,         \* the intents list as it was passed to the first call
    quote_data,      \* ticker -> quote record, for the tickers that have a quote
    portfolio_info,  \* [buying_power, positions]
    finnhub,         \* what the fallback price lookup (lines 99-111) answered
                     \* during each call so far
    vpc,             \* "input", "once" (after the first call), "twice"
    ret1,            \* first call: [raised, out (indexes into trades), orders (values)]
    ret2,            \* second call, same shape
    \* ---- execute_trade (src/trading_bot.py) ----
    order_dict,      \* the order execute_trade was called with
    open_orders,     \* the broker's open orders for the ticker, in listing order
    canceled,        \* indexes of open_orders the broker has cancelled
    epc,             \* where execute_trade is
    k,               \* cancel loop: index of the next listed order
    total_reserved,  \* cancel_bracket_orders_for_ticker's total_reserved
    original_bracket, \* its original_bracket (None, or [stop_loss, take_profit])
    calls,           \* the gateway calls made so far, in order
    result,          \* "none"; then "order", "null" (None returned) or "raised"
    \* ---- main (src/trading_bot.py) ----
    mpc,             \* where main is
    market_status,   \* what the market-status lookup answered
    fetched,         \* whether get_portfolio_info has been called
    ti,              \* execution loop: index of the order being executed
    attempts         \* the calls of execute_trade that have ended, in order

vvars == <<trades, trades0, quote_data, portfolio_info, finnhub, vpc, ret1, ret2>>
evars == <<order_dict, open_orders, canceled, epc, k, total_reserved,
           original_bracket, calls, result>>
mvars == <<mpc, market_status, fetched, ti, attempts>>
vars == <<vvars, evars, mvars>>

----------------------------------------------------------------------------
\* Python values

None == [t |-> "none", v |-> 0]
Str == [t |-> "str", v |-> 0]
Num(n) == [t |-> "num", v |-> n]
IsNum(x) == x.t = "num"

\* str.upper() on the strings the model uses
Upper(s) ==
    CASE s = "nvda" -> "NVDA"
      [] s = "aapl" -> "AAPL"
      [] s = "buy" -> "BUY"
      [] s = "sell" -> "SELL"
      [] s = "short" -> "SHORT"
      [] s = "cover" -> "COVER"
      [] OTHER -> s

Abs(n) == IF n < 0 THEN -n ELSE n

\* int(x) on a number held in hundredths: truncation toward zero
IntOf(n) == IF n >= 0 THEN (n \div 100) * 100 ELSE -(((-n) \div 100) * 100)

\* x / d for x >= 0, rounded to the nearest integer, ties to even
RoundDiv(x, d) ==
    LET q == x \div d
        r == x % d
    IN  IF 2 * r < d THEN q
        ELSE IF 2 * r > d THEN q + 1
        ELSE IF q % 2 = 0 THEN q ELSE q + 1

\* round(x, 2) of a non-negative x given in thousandths, as hundredths.
\* The inputs of the model are chosen so that no product is an exact tie,
\* where the binary float could fall on either side.
Round2(thousandths) == RoundDiv(thousandths, 10)

----------------------------------------------------------------------------
\* validate_trades, lines 17-24: the dict unique_trades, as the sequence of
\* its values (indexes into trades) in key insertion order.

TradeKey(trade) == <<trade.ticker, Upper(trade.action)>>

HasKey(trade) == trade.ticker # "" /\ Upper(trade.action) # ""

\* unique_trades[key] = trade  (d is a sequence of <<key, index>>)
DictPut(d, key, i) ==
    IF \E n \in 1..Len(d) : d[n][1] = key
    THEN [n \in 1..Len(d) |-> IF d[n][1] = key THEN <<key, i>> ELSE d[n]]
    ELSE Append(d, <<key, i>>)

RECURSIVE UniqueFrom(_, _, _)
UniqueFrom(ts, i, d) ==
    IF i > Len(ts) THEN d
    ELSE UniqueFrom(ts, i + 1,
                    IF HasKey(ts[i]) THEN DictPut(d, TradeKey(ts[i]), i) ELSE d)

\* A faulty variant of unique_trades: the first intent of a key is kept
\* (as if line 24 were guarded by "if key not in unique_trades").
unique_trades_first(ts) ==
    LET keyed == {i \in 1..Len(ts) : HasKey(ts[i])}
        firsts == {i \in keyed : \A j \in keyed : j < i => TradeKey(ts[j]) # TradeKey(ts[i])}
    IN  SelectSeq([i \in 1..Len(ts) |-> i], LAMBDA i : i \in firsts)

unique_trades(ts) ==
    LET d == UniqueFrom(ts, 1, <<>>) IN [n \in 1..Len(d) |-> d[n][2]]

----------------------------------------------------------------------------
\* validate_trades, lines 26-46: the two position dicts and buying_power

\* positions[ticker.upper()] = float(qty); positions.get(ticker, 0)
RECURSIVE positions_get(_, _, _)
positions_get(ps, n, ticker) ==
    IF n = 0 THEN 0
    ELSE IF ps[n].ticker # "" /\ Upper(ps[n].ticker) = ticker THEN ps[n].qty
    ELSE positions_get(ps, n - 1, ticker)

\* open_positions = {x.get("ticker", ""): x for x in positions}
in_open_positions(ps, ticker) == \E n \in 1..Len(ps) : ps[n].ticker = ticker

RECURSIVE open_positions_qty(_, _, _)
open_positions_qty(ps, n, ticker) ==
    IF n = 0 THEN 0
    ELSE IF ps[n].ticker = ticker THEN ps[n].qty
    ELSE open_positions_qty(ps, n - 1, ticker)

\* lines 41-44: float(buying_power), 0 when that fails
buying_power(pf) == IF IsNum(pf.buying_power) THEN pf.buying_power.v ELSE 0

----------------------------------------------------------------------------
\* validate_trades, lines 54-68: the position-compatible fast path.  The
\* intent is appended as it is and the loop continues with the next intent.
fast_path(trade, ps) ==
    LET action == Upper(trade.action)
        qty == open_positions_qty(ps, Len(ps), trade.ticker)
    IN  /\ in_open_positions(ps, trade.ticker)
        /\ \/ action \in {"SELL", "SHORT"} /\ qty >= 0
           \/ action = "COVER" /\ qty < 0
           \/ action = "BUY" /\ qty <= 0

\* A faulty variant of position_check: the quantity is never limited.
position_check_noclamp(trade, ps) ==
    LET action == Upper(trade.action)
        quantity == trade.quantity
        position_qty == positions_get(ps, Len(ps), trade.ticker)
        keep == [kind |-> "go", quantity |-> quantity, clamped |-> FALSE]
        drop == [kind |-> "drop", quantity |-> quantity, clamped |-> FALSE]
    IN  IF action = "SELL" /\ position_qty <= 0 THEN drop
        ELSE IF action = "COVER" /\ position_qty >= 0 THEN drop
        ELSE keep

\* lines 71-88: SELL needs a long, COVER a short; the quantity is limited to
\* the position.  kind: "drop" (continue), "raise" (the comparison of a
\* quantity that is no number with a float raises TypeError outside any try),
\* "go"; clamped says that trade["quantity"] was assigned.
position_check(trade, ps) ==
    LET action == Upper(trade.action)
        quantity == trade.quantity
        position_qty == positions_get(ps, Len(ps), trade.ticker)
        keep == [kind |-> "go", quantity |-> quantity, clamped |-> FALSE]
        drop == [kind |-> "drop", quantity |-> quantity, clamped |-> FALSE]
        raise == [kind |-> "raise", quantity |-> quantity, clamped |-> FALSE]
        clamp(q) == [kind |-> "go", quantity |-> Num(IntOf(q)), clamped |-> TRUE]
    IN  IF action = "SELL" THEN
            IF position_qty <= 0 THEN drop
            ELSE IF ~IsNum(quantity) THEN raise
            ELSE IF quantity.v > position_qty THEN clamp(position_qty)
            ELSE keep
        ELSE IF action = "COVER" THEN
            IF position_qty >= 0 THEN drop
            ELSE IF ~IsNum(quantity) THEN raise
            ELSE IF quantity.v > Abs(position_qty) THEN clamp(Abs(position_qty))
            ELSE keep
        ELSE keep

\* A faulty variant of resolve_price: a quote without a price falls through to
\* the target price.
resolve_price_fallthrough(trade, quotes, fh) ==
    LET ticker == trade.ticker
        target == trade.order_target_price
        drop == [kind |-> "drop", price |-> None]
    IN  IF ticker \in DOMAIN quotes /\ IsNum(quotes[ticker].current_price)
        THEN [kind |-> "price", price |-> quotes[ticker].current_price]
        ELSE IF IsNum(target) THEN [kind |-> "price", price |-> target]
        ELSE IF fh.status = 200 THEN [kind |-> "price", price |-> fh.c]
        ELSE drop

\* lines 90-111: the price of the intent.  kind "drop" is a continue (in the
\* fallback branch, or through the except of line 114); kind "price" carries
\* current_price, which the fallback leaves as json.get("c") gave it.
resolve_price(trade, quotes, fh) ==
    LET ticker == trade.ticker
        target == trade.order_target_price
        drop == [kind |-> "drop", price |-> None]
    IN  IF ticker \notin DOMAIN quotes /\ target # None THEN
            IF IsNum(target) THEN [kind |-> "price", price |-> target] ELSE drop
        ELSE IF ticker \in DOMAIN quotes THEN
            IF IsNum(quotes[ticker].current_price)
            THEN [kind |-> "price", price |-> quotes[ticker].current_price]
            ELSE drop
        ELSE IF fh.status = 200 THEN [kind |-> "price", price |-> fh.c]
        ELSE drop

\* line 118: current_price * abs(quantity) > buying_power, both sides in
\* ten-thousandths (quantity is the int of line 113, in hundredths)
over_buying_power(current_price, quantity, bp) ==
    current_price * Abs(quantity) > bp * 100

\* A faulty variant of adjust_stop_loss: an out-of-bound stop is scaled from the
\* stop the intent carries instead of being set to the bound of the price.
adjust_stop_loss_scaled(action, stop_loss, current_price) ==
    LET min_stop == current_price * 7
        max_stop == current_price * 13
    IN  IF action \in {"BUY", "COVER"} THEN
            IF stop_loss = None THEN [raise |-> FALSE, value |-> Num(Round2(min_stop))]
            ELSE IF ~IsNum(stop_loss) THEN [raise |-> TRUE, value |-> stop_loss]
            ELSE IF stop_loss.v * 10 < min_stop
                 THEN [raise |-> FALSE, value |-> Num(Round2(stop_loss.v * 7))]
            ELSE [raise |-> FALSE, value |-> stop_loss]
        ELSE IF action \in {"SELL", "SHORT"} THEN
            IF stop_loss = None THEN [raise |-> FALSE, value |-> Num(Round2(max_stop))]
            ELSE IF ~IsNum(stop_loss) THEN [raise |-> TRUE, value |-> stop_loss]
            ELSE IF stop_loss.v * 10 > max_stop
                 THEN [raise |-> FALSE, value |-> Num(Round2(stop_loss.v * 13))]
            ELSE [raise |-> FALSE, value |-> stop_loss]
        ELSE [raise |-> FALSE, value |-> stop_loss]

\* lines 121-132: the stop loss the intent leaves with.  raise: a stop_loss
\* that is no number and not None is compared with a float (TypeError).
adjust_stop_loss(action, stop_loss, current_price) ==
    LET min_stop == current_price * 7     \* thousandths
        max_stop == current_price * 13
    IN  IF action \in {"BUY", "COVER"} THEN
            IF stop_loss = None THEN [raise |-> FALSE, value |-> Num(Round2(min_stop))]
            ELSE IF ~IsNum(stop_loss) THEN [raise |-> TRUE, value |-> stop_loss]
            ELSE IF stop_loss.v * 10 < min_stop
                 THEN [raise |-> FALSE, value |-> Num(Round2(min_stop))]
            ELSE [raise |-> FALSE, value |-> stop_loss]
        ELSE IF action \in {"SELL", "SHORT"} THEN
            IF stop_loss = None THEN [raise |-> FALSE, value |-> Num(Round2(max_stop))]
            ELSE IF ~IsNum(stop_loss) THEN [raise |-> TRUE, value |-> stop_loss]
            ELSE IF stop_loss.v * 10 > max_stop
                 THEN [raise |-> FALSE, value |-> Num(Round2(max_stop))]
            ELSE [raise |-> FALSE, value |-> stop_loss]
        ELSE [raise |-> FALSE, value |-> stop_loss]

\* lines 49-133: one iteration of the loop, for the intent at index i.
\* st = [trades, out, raised]: the intents (adjusted in place), valid_trades
\* as indexes into them, and whether an exception has left the function.
validate_one(st, i, quotes, pf, fh) ==
    LET trade == st.trades[i]
        ps == pf.positions
        action == Upper(trade.action)
        pc == position_check(trade, ps)
        t1 == IF pc.clamped THEN [trade EXCEPT !.quantity = pc.quantity] ELSE trade
        ts1 == [st.trades EXCEPT ![i] = t1]
        rp == resolve_price(t1, quotes, fh)
        sl == adjust_stop_loss(action, t1.stop_loss, rp.price.v)
        t2 == [t1 EXCEPT !.stop_loss = sl.value]
    IN  IF fast_path(trade, ps) THEN [st EXCEPT !.out = Append(@, i)]
        ELSE IF pc.kind = "drop" THEN st
        ELSE IF pc.kind = "raise" THEN [st EXCEPT !.raised = TRUE]
        ELSE IF rp.kind = "drop" \/ ~IsNum(pc.quantity) THEN [st EXCEPT !.trades = ts1]
        ELSE IF ~IsNum(rp.price) THEN [st EXCEPT !.trades = ts1, !.raised = TRUE]
        ELSE IF over_buying_power(rp.price.v, IntOf(pc.quantity.v), buying_power(pf))
             THEN [st EXCEPT !.trades = ts1]
        ELSE IF sl.raise THEN [st EXCEPT !.trades = ts1, !.raised = TRUE]
        ELSE [st EXCEPT !.trades = [ts1 EXCEPT ![i] = t2], !.out = Append(@, i)]

RECURSIVE validate_loop(_, _, _, _, _, _)
validate_loop(st, ixs, n, quotes, pf, fh) ==
    IF n > Len(ixs) \/ st.raised THEN st
    ELSE validate_loop(validate_one(st, ixs[n], quotes, pf, fh), ixs, n + 1, quotes, pf, fh)

\* validate_trades(trades, quote_data, portfolio_info, FINNHUB_API_KEY):
\* raised, or the list returned (out: which intents; orders: their records
\* when the call returns), and the intents as the call leaves them.
validate_trades(ts, quotes, pf, fh) ==
    LET st == validate_loop([trades |-> ts, out |-> <<>>, raised |-> FALSE],
                            unique_trades(ts), 1, quotes, pf, fh)
    IN  [raised |-> st.raised,
         trades |-> st.trades,
         out |-> IF st.raised THEN <<>> ELSE st.out,
         orders |-> IF st.raised THEN <<>>
                    ELSE [n \in 1..Len(st.out) |-> st.trades[st.out[n]]]]

----------------------------------------------------------------------------
\* Inputs of validate_trades

MaxTrades == 1
MaxBatch == 3
MaxPositions == 1

SeqsUpTo(S, n) == UNION {[1..m -> S] : m \in 0..n}

\* single intents, every field varied
Actions == {"BUY", "SELL", "SHORT", "COVER"}
Quantities == {None, Num(-500), Num(0), Num(250), Num(1000), Num(10000)}
StopLosses == {None, Num(10000), Num(30000), Str}
TargetPrices == {None, Num(15000), Str}

TradeIntents ==
    [ticker : {"NVDA"}, action : Actions, quantity : Quantities,
     stop_loss : StopLosses, take_profits_price : {Num(25000)},
     order_target_price : TargetPrices]

PositionRecords == [ticker : {"NVDA", "nvda"}, qty : {5000, -5000}]
BuyingPowers == {Num(500000), Num(1500000)}

\* get_portfolio_info (src/trading_bot.py, lines 46-67): the account's
\* buying power and positions, or {} when the broker could not be reached
Portfolios ==
    [buying_power : BuyingPowers, positions : SeqsUpTo(PositionRecords, MaxPositions)]
        \cup {[buying_power |-> None, positions |-> <<>>]}
Quotes == {[current_price |-> Num(20000)], [current_price |-> None]}
Finnhub == {[status |-> 500, c |-> None], [status |-> 200, c |-> None],
            [status |-> 200, c |-> Num(3333)]}

\* lists of intents with well-formed fields, two tickers; the intents of one
\* key differ in their stop loss
BatchIntents ==
    [ticker : {"NVDA", "AAPL"}, action : {"BUY", "SELL"},
     quantity : {Num(10000)}, stop_loss : {None, Num(10000)},
     take_profits_price : {Num(25000)}, order_target_price : {None}]

BatchPositionRecords == [ticker : {"NVDA", "nvda"}, qty : {5000}]

\* intents whose price comes from the quote, the target price or the lookup,
\* with quantities below and above the positions
PathIntents ==
    [ticker : {"NVDA"}, action : {"BUY", "SELL", "COVER"},
     quantity : {Num(2500), Num(10000)}, stop_loss : {None},
     take_profits_price : {Num(25000)}, order_target_price : {None, Num(15000)}]

NoReturn == [raised |-> FALSE, out |-> <<>>, orders |-> <<>>]

NoStatus == [status |-> -1, isOpen |-> "missing"]

MainIdle ==
    /\ mpc = "off"
    /\ market_status = NoStatus
    /\ fetched = FALSE
    /\ ti = 0
    /\ attempts = <<>>

ExecIdle ==
    /\ MainIdle
    /\ order_dict = [ticker |-> "", action |-> "", quantity |-> None,
                     stop_loss |-> None, take_profits_price |-> None]
    /\ open_orders = <<>>
    /\ canceled = {}
    /\ epc = "off"
    /\ k = 0
    /\ total_reserved = 0
    /\ original_bracket = None
    /\ calls = <<>>
    /\ result = "none"

Init ==
    /\ trades \in SeqsUpTo(TradeIntents, MaxTrades)
    /\ trades0 = trades
    /\ \E T \in SUBSET {"NVDA"} : quote_data \in [T -> Quotes]
    /\ portfolio_info \in Portfolios
    /\ finnhub = <<>>
    /\ vpc = "input"
    /\ ret1 = NoReturn
    /\ ret2 = NoReturn
    /\ ExecIdle

InitBatch ==
    /\ trades \in SeqsUpTo(BatchIntents, MaxBatch)
    /\ trades0 = trades
    /\ quote_data = [t \in {"NVDA"} |-> [current_price |-> Num(20000)]]
    /\ portfolio_info \in [buying_power : {Num(2500000)},
                           positions : SeqsUpTo(BatchPositionRecords, MaxPositions)]
    /\ finnhub = <<>>
    /\ vpc = "input"
    /\ ret1 = NoReturn
    /\ ret2 = NoReturn
    /\ ExecIdle

InitPath ==
    /\ trades \in SeqsUpTo(PathIntents, MaxTrades)
    /\ trades0 = trades
    /\ \E T \in SUBSET {"NVDA"} : quote_data \in [T -> Quotes]
    /\ portfolio_info \in [buying_power : {Num(1500000)},
                           positions : SeqsUpTo(PositionRecords, MaxPositions)]
    /\ finnhub = <<>>
    /\ vpc = "input"
    /\ ret1 = NoReturn
    /\ ret2 = NoReturn
    /\ ExecIdle

\* valid_trades = validate_trades(trades, quote_data, portfolio_info, KEY).
\* The fallback lookup is a request to the quote service made during the
\* call; the service decides what it answers.
Validate ==
    /\ vpc = "input"
    /\ \E fh \in Finnhub :
        LET r == validate_trades(trades, quote_data, portfolio_info, fh)
        IN  /\ finnhub' = Append(finnhub, fh)
            /\ trades' = r.trades
            /\ ret1' = [raised |-> r.raised, out |-> r.out, orders |-> r.orders]
    /\ vpc' = "once"
    /\ UNCHANGED <<trades0, quote_data, portfolio_info, ret2, evars, mvars>>

\* the same call again, on the inputs as the first call left them
ValidateAgain ==
    /\ vpc = "once"
    /\ \E fh \in Finnhub :
        LET r == validate_trades(trades, quote_data, portfolio_info, fh)
        IN  /\ finnhub' = Append(finnhub, fh)
            /\ trades' = r.trades
            /\ ret2' = [raised |-> r.raised, out |-> r.out, orders |-> r.orders]
    /\ vpc' = "twice"
    /\ UNCHANGED <<trades0, quote_data, portfolio_info, ret1, evars, mvars>>

Next == Validate \/ ValidateAgain

Spec == Init /\ [][Next]_vars

SpecBatch == InitBatch /\ [][Next]_vars

SpecPath == InitPath /\ [][Next]_vars

----------------------------------------------------------------------------
\* Claims about validate_trades

Returned == vpc = "once" /\ ~ret1.raised

\* the long holding of a ticker (0 when the ticker is held short or not held)
LongHolding(ticker) ==
    LET q == positions_get(portfolio_info.positions, Len(portfolio_info.positions), ticker)
    IN  IF q > 0 THEN q ELSE 0

\* C1 (as claimed): every order returned by validate_trades satisfies
\* current_price x quantity <= buying_power, current_price being the price
\* resolved for its ticker; fast-path orders included.
C1_CapitalBound ==
    Returned =>
        \A n \in 1..Len(ret1.orders) :
            LET o == ret1.orders[n]
                rp == resolve_price(o, quote_data, finnhub[1])
            IN  (rp.kind = "price" /\ IsNum(rp.price) /\ IsNum(o.quantity)) =>
                    rp.price.v * o.quantity.v <= buying_power(portfolio_info) * 100

\* C2 (as claimed): every returned BUY/COVER order has a stop_loss of at
\* least 0.7 x current_price and every returned SELL/SHORT order one of at
\* most 1.3 x current_price, up to the rounding to two decimals (half a
\* hundredth); a missing stop_loss has been replaced by the bound.
C2_StopLossBounds ==
    Returned =>
        \A n \in 1..Len(ret1.orders) :
            LET o == ret1.orders[n]
                rp == resolve_price(o, quote_data, finnhub[1])
            IN  (rp.kind = "price" /\ IsNum(rp.price)) =>
                    /\ Upper(o.action) \in {"BUY", "COVER"} =>
                           IsNum(o.stop_loss) /\ o.stop_loss.v * 10 >= rp.price.v * 7 - 5
                    /\ Upper(o.action) \in {"SELL", "SHORT"} =>
                           IsNum(o.stop_loss) /\ o.stop_loss.v * 10 <= rp.price.v * 13 + 5

\* C3 (as claimed): a returned SELL on a ticker with a long position has a
\* quantity no greater than the long position, and exactly the long position
\* when the intent asked for more.
C3_SellClampedToLong ==
    Returned =>
        \A n \in 1..Len(ret1.out) :
            LET o == ret1.orders[n]
                asked == trades0[ret1.out[n]].quantity
                long == LongHolding(o.ticker)
            IN  (Upper(o.action) = "SELL" /\ long > 0 /\ IsNum(asked)) =>
                    /\ IsNum(o.quantity) /\ o.quantity.v <= long
                    /\ asked.v > long => o.quantity.v = long

\* C4 (as claimed): every returned order has a quantity that is a positive
\* integer and a stop_loss that is not null.
C4_PositiveIntegerQuantity ==
    Returned =>
        \A n \in 1..Len(ret1.orders) :
            LET o == ret1.orders[n]
            IN  /\ IsNum(o.quantity)
                /\ o.quantity.v > 0
                /\ o.quantity.v % 100 = 0
                /\ o.stop_loss # None

\* the intents list without the intents that a later one of the same key
\* replaces
LaterSameKey(ts, i) ==
    \E j \in (i + 1)..Len(ts) : HasKey(ts[j]) /\ TradeKey(ts[j]) = TradeKey(ts[i])

WithoutEarlier(ts) ==
    SelectSeq([i \in 1..Len(ts) |-> IF LaterSameKey(ts, i) THEN None ELSE ts[i]],
              LAMBDA x : x # None)

OrderSet(orders) == {orders[n] : n \in 1..Len(orders)}

\* C5: among intents of the same (ticker, action) key only the last is
\* considered: no two returned orders share a key, no returned order has a
\* later intent of its key, an intent that a later one replaces is left as
\* it was passed in, and the orders returned are those returned for the
\* list without the replaced intents.
C5_LastDuplicateOnly ==
    Returned =>
        /\ \A a, b \in 1..Len(ret1.out) :
               a # b => TradeKey(trades0[ret1.out[a]]) # TradeKey(trades0[ret1.out[b]])
        /\ \A a \in 1..Len(ret1.out) : ~LaterSameKey(trades0, ret1.out[a])
        /\ \A i \in 1..Len(trades0) : LaterSameKey(trades0, i) => trades[i] = trades0[i]
        /\ OrderSet(ret1.orders) =
               OrderSet(validate_trades(WithoutEarlier(trades0), quote_data,
                                        portfolio_info, finnhub[1]).orders)

\* C5 witness: three intents, the first and the third of one key and
\* different, the third returned.
C5_Witness ==
    /\ Returned
    /\ Len(trades0) = 3
    /\ TradeKey(trades0[1]) = TradeKey(trades0[3])
    /\ trades0[1] # trades0[3]
    /\ \E a \in 1..Len(ret1.out) : ret1.out[a] = 3

\* C6 (as claimed): validate_trades never raises; whatever the intents, the
\* quotes and the fallback lookup are, the call returns a list.
C6_NeverRaises == vpc = "once" => ~ret1.raised

\* C7 (as claimed): a second call with the same intents (as the first call
\* left them), quotes and portfolio returns what the first call returned:
\* the same intents, in the same order, with the same field values.
C7_Idempotent ==
    (vpc = "twice" /\ ~ret1.raised) => ret2 = ret1

\* C7 (amended): the same, when the fallback price lookup answers during
\* the second call what it answered during the first.
C7_IdempotentSameLookup ==
    (vpc = "twice" /\ ~ret1.raised /\ finnhub[2] = finnhub[1]) => ret2 = ret1

\* C7 witness: both calls returned, the lookup answered the same, and the
\* first call clamped a quantity and set a stop loss in place.
C7_Witness ==
    /\ vpc = "twice"
    /\ ~ret1.raised
    /\ finnhub[2] = finnhub[1]
    /\ \E n \in 1..Len(ret1.out) :
           /\ trades[ret1.out[n]].quantity # trades0[ret1.out[n]].quantity
           /\ trades[ret1.out[n]].stop_loss # trades0[ret1.out[n]].stop_loss

\* the intents validate_trades considers: those no later intent replaces
Considered == {i \in 1..Len(trades0) : HasKey(trades0[i]) /\ ~LaterSameKey(trades0, i)}

InOut(i) == \E n \in 1..Len(ret1.out) : ret1.out[n] = i

OrderOf(i) == ret1.orders[CHOOSE n \in 1..Len(ret1.out) : ret1.out[n] = i]

C15_ExitNeedsPosition ==
    Returned =>
        \A i \in Considered :
            LET t == trades0[i]
                ps == portfolio_info.positions
                held == {n \in 1..Len(ps) : Upper(ps[n].ticker) = Upper(t.ticker)}
            IN  (InOut(i) /\ ~fast_path(t, ps)) =>
                    /\ Upper(t.action) = "SELL" =>
                           \E n \in held : /\ ps[n].qty > 0
                                            /\ IsNum(OrderOf(i).quantity)
                                            /\ OrderOf(i).quantity.v <= ps[n].qty
                    /\ Upper(t.action) = "COVER" =>
                           \E n \in held : /\ ps[n].qty < 0
                                            /\ IsNum(OrderOf(i).quantity)
                                            /\ OrderOf(i).quantity.v <= -ps[n].qty

\* C15 witness: a SELL of 100 against a long position of 50 held under a
\* ticker written in lower case (so off the fast path) is returned with 50.
C15_Witness ==
    /\ Returned
    /\ \E i \in Considered :
           /\ InOut(i)
           /\ ~fast_path(trades0[i], portfolio_info.positions)
           /\ Upper(trades0[i].action) = "SELL"
           /\ trades0[i].quantity = Num(10000)
           /\ OrderOf(i).quantity = Num(5000)

\* the lookup's price, when it answered with one
LookupPrice == IF finnhub[1].status = 200 THEN finnhub[1].c ELSE None

----------------------------------------------------------------------------
\* execute_trade (src/trading_bot.py, lines 190-273) and the two functions
\* it calls.  Every gateway call (get_all_orders, cancel_order, submit_order)
\* is one step; the broker decides its outcome.

MaxOpenOrders == 2

\* lines 210-216
order_side(action) ==
    IF action \in {"BUY", "COVER"} THEN "buy"
    ELSE IF action \in {"SELL", "SHORT"} THEN "sell"
    ELSE "invalid"

\* A faulty variant of first_step: SELL orders cancel the brackets too.
first_step_exits_cancel(action) ==
    IF action \in {"BUY", "SHORT"} THEN "bracket"
    ELSE IF action \in {"SELL", "COVER"} THEN "list"
    ELSE "done"

\* lines 218, 248-251, 259: what execute_trade does first for an action
first_step(action) ==
    IF action \in {"BUY", "SHORT"} THEN "bracket"
    ELSE IF action = "COVER" THEN "list"
    ELSE IF action = "SELL" THEN "market"
    ELSE "done"

\* A faulty variant of limit_loss_price: the 1% is always subtracted.
limit_loss_price_minus(plus, stop) ==
    RoundDiv(stop * 99, 100)

\* lines 222-225 and 168-171: round(stop + stop * 0.01, 2), or minus
limit_loss_price(plus, stop) ==
    RoundDiv(stop * (IF plus THEN 101 ELSE 99), 100)

\* A faulty variant of reestablish_stop_loss: no stop-loss leg is sent.
reestablish_stop_loss_none(bracket, side) ==
    [stop_price |-> None, limit_price |-> None]

\* lines 164-171 and 181: the stop-loss leg of the order that re-establishes
\* a bracket: the stop price kept from the original bracket, and a limit 1%
\* above it for a sell side, 1% below it otherwise
reestablish_stop_loss(bracket, side) ==
    [stop_price |-> bracket.stop_loss,
     limit_price |-> Num(limit_loss_price(side = "sell", bracket.stop_loss.v))]

\* A faulty variant of remaining_qty: the exit quantity is not subtracted.
remaining_qty_all(reserved_qty, qty) == reserved_qty

\* line 256
remaining_qty(reserved_qty, qty) == reserved_qty - qty

\* line 255: after cancel_bracket_orders_for_ticker has returned
after_cancel(reserved_qty, bracket) ==
    IF reserved_qty > order_dict.quantity.v /\ bracket # None
    THEN "reestablish" ELSE "market"

\* lines 125-143: the loop goes on with the listed order k, or has ended
loop_or_after(kk, reserved_qty, bracket) ==
    IF kk <= Len(open_orders) THEN "loop" ELSE after_cancel(reserved_qty, bracket)

\* A faulty variant of bracket_next: a rejected entry is submitted again.
bracket_next_retry(ok) == IF ok THEN "done" ELSE "bracket"

\* lines 240-246: execute_trade returns the response, or None after an
\* exception of submit_order
bracket_next(ok) == "done"

\* A faulty variant of market_next: a submission rejected for inventory is repeated.
market_next_retry(outcome) == IF outcome = "conflict" THEN "market" ELSE "done"

\* lines 267-273: execute_trade returns whatever submit_order did
market_next(outcome) == "done"

Call(op, class, purpose, id, qty, side, tp, stop, limit, outcome) ==
    [op |-> op, order_class |-> class, purpose |-> purpose, id |-> id, qty |-> qty,
     side |-> side, take_profit |-> tp, stop_price |-> stop, stop_limit |-> limit,
     outcome |-> outcome]

ExecOrders ==
    [ticker : {"META"}, action : {"BUY", "SELL", "SHORT", "COVER", "HOLD"},
     quantity : {Num(2000), Num(7000)}, stop_loss : {None, Num(40), Num(30000)},
     take_profits_price : {Num(25000)}]

\* an open order at the broker; details_ok: its stop_loss["stop_price"] and
\* take_profit["limit_price"] can be read (lines 133-134)
BrokerOrders ==
    [order_class : {"bracket", "simple"}, qty : {1500, 5000},
     take_profit : {Num(50000), Num(48000)}, stop_loss : {Num(60000)},
     details_ok : BOOLEAN, side : {"sell"}]

InitExec ==
    /\ trades = <<>>
    /\ trades0 = <<>>
    /\ quote_data = <<>>
    /\ portfolio_info = [buying_power |-> None, positions |-> <<>>]
    /\ finnhub = <<>>
    /\ vpc = "off"
    /\ ret1 = NoReturn
    /\ ret2 = NoReturn
    /\ order_dict \in ExecOrders
    /\ open_orders \in SeqsUpTo(BrokerOrders, MaxOpenOrders)
    /\ canceled = {}
    /\ epc = "start"
    /\ k = 0
    /\ total_reserved = 0
    /\ original_bracket = None
    /\ calls = <<>>
    /\ result = "none"
    /\ MainIdle

\* lines 206-218, 248-249: side and dispatch; ValueError for another action
Start ==
    /\ epc = "start"
    /\ LET action == Upper(order_dict.action)
       IN  IF order_side(action) = "invalid"
           THEN epc' = "done" /\ result' = "raised"
           ELSE epc' = first_step(action) /\ result' = result
    /\ UNCHANGED <<vvars, mvars, order_dict, open_orders, canceled, k, total_reserved,
                   original_bracket, calls>>

\* lines 219-246: the bracket order of an entry.  round() of a stop_loss or
\* take profit that is None raises TypeError before any call.
SubmitBracket ==
    /\ epc = "bracket"
    /\ LET action == Upper(order_dict.action)
           stop == order_dict.stop_loss
           tp == order_dict.take_profits_price
       IN  IF ~IsNum(stop) \/ ~IsNum(tp)
           THEN /\ result' = "raised"
                /\ calls' = calls
                /\ epc' = "done"
           ELSE \E ok \in BOOLEAN :
                /\ calls' = Append(calls,
                       Call("submit_order", "bracket", "entry", 0, order_dict.quantity.v,
                            order_side(action), tp,
                            stop, Num(limit_loss_price(action = "SHORT", stop.v)),
                            IF ok THEN "ok" ELSE "rejected"))
                /\ result' = IF ok THEN "order" ELSE "null"
                /\ epc' = bracket_next(ok)
    /\ UNCHANGED <<vvars, mvars, order_dict, open_orders, canceled, k, total_reserved,
                   original_bracket>>

\* line 124: get_all_orders; an exception ends the function (lines 144-146)
GetAllOrders ==
    /\ epc = "list"
    /\ \E ok \in BOOLEAN :
        /\ calls' = Append(calls,
               Call("get_all_orders", "", "", 0, 0, "", None, None, None,
                    IF ok THEN "ok" ELSE "error"))
        /\ IF ok
           THEN k' = 1 /\ epc' = loop_or_after(1, total_reserved, original_bracket)
           ELSE k' = k /\ epc' = after_cancel(total_reserved, original_bracket)
    /\ UNCHANGED <<vvars, mvars, order_dict, open_orders, canceled, total_reserved,
                   original_bracket, result>>

\* line 127: a listed order that is no bracket is passed over
SkipOrder ==
    /\ epc = "loop"
    /\ open_orders[k].order_class # "bracket"
    /\ k' = k + 1
    /\ epc' = loop_or_after(k + 1, total_reserved, original_bracket)
    /\ UNCHANGED <<vvars, mvars, order_dict, open_orders, canceled, total_reserved,
                   original_bracket, calls, result>>

\* lines 127-143: a listed bracket is counted, its details are kept when
\* none are kept yet, and it is cancelled; an exception of cancel_order ends
\* the loop (lines 144-146)
CancelBracket ==
    /\ epc = "loop"
    /\ open_orders[k].order_class = "bracket"
    /\ LET o == open_orders[k]
           reserved == total_reserved + o.qty
           bracket == IF original_bracket = None /\ o.details_ok
                      THEN [t |-> "bracket", v |-> 0, stop_loss |-> o.stop_loss,
                            take_profit |-> o.take_profit]
                      ELSE original_bracket
       IN  /\ total_reserved' = reserved
           /\ original_bracket' = bracket
           /\ \E ok \in BOOLEAN :
                /\ calls' = Append(calls,
                       Call("cancel_order", "bracket", "", k, o.qty, o.side, None, None,
                            None, IF ok THEN "ok" ELSE "error"))
                /\ IF ok
                   THEN /\ canceled' = canceled \cup {k}
                        /\ k' = k + 1
                        /\ epc' = loop_or_after(k + 1, reserved, bracket)
                   ELSE /\ canceled' = canceled
                        /\ k' = k
                        /\ epc' = after_cancel(reserved, bracket)
    /\ UNCHANGED <<vvars, mvars, order_dict, open_orders, result>>

\* lines 255-258 and 162-188: a bracket order for the shares the cancelled
\* brackets held beyond the exit quantity; a failure is logged and ignored
Reestablish ==
    /\ epc = "reestablish"
    /\ LET side == order_side(Upper(order_dict.action))
           leg == reestablish_stop_loss(original_bracket, side)
       IN  \E ok \in BOOLEAN :
            calls' = Append(calls,
                Call("submit_order", "bracket", "reestablish", 0,
                     remaining_qty(total_reserved, order_dict.quantity.v), side,
                     original_bracket.take_profit, leg.stop_price, leg.limit_price,
                     IF ok THEN "ok" ELSE "rejected"))
    /\ epc' = "market"
    /\ UNCHANGED <<vvars, mvars, order_dict, open_orders, canceled, k, total_reserved,
                   original_bracket, result>>

\* lines 259-273: the market order of an exit; the broker accepts it,
\* rejects it because the shares are held by other orders, or rejects it
\* for another reason
SubmitMarket ==
    /\ epc = "market"
    /\ \E outcome \in {"ok", "conflict", "rejected"} :
        /\ calls' = Append(calls,
               Call("submit_order", "simple", "exit", 0, order_dict.quantity.v,
                    order_side(Upper(order_dict.action)), None, None, None, outcome))
        /\ result' = IF outcome = "ok" THEN "order" ELSE "null"
        /\ epc' = market_next(outcome)
    /\ UNCHANGED <<vvars, mvars, order_dict, open_orders, canceled, k, total_reserved,
                   original_bracket>>

NextExec ==
    \/ Start
    \/ SubmitBracket
    \/ GetAllOrders
    \/ SkipOrder
    \/ CancelBracket
    \/ Reestablish
    \/ SubmitMarket

SpecExec == InitExec /\ [][NextExec]_vars

----------------------------------------------------------------------------
\* Claims about execute_trade

ExitAction == Upper(order_dict.action)

MarketSubmits ==
    {n \in 1..Len(calls) : calls[n].op = "submit_order" /\ calls[n].purpose = "exit"}

Cancels == {n \in 1..Len(calls) : calls[n].op = "cancel_order"}

Reestablishes ==
    {n \in 1..Len(calls) : calls[n].op = "submit_order" /\ calls[n].purpose = "reestablish"}

RECURSIVE SumQty(_)
SumQty(S) ==
    IF S = {} THEN 0
    ELSE LET n == CHOOSE x \in S : TRUE IN calls[n].qty + SumQty(S \ {n})

\* the quantity of the brackets the broker has cancelled before call n
FreedBefore(n) == SumQty({m \in Cancels : m < n /\ calls[m].outcome = "ok"})

\* C8 (as claimed): for an exit order the first gateway call is the
\* submission of the market order, and a bracket is cancelled only after
\* that submission was rejected with an inventory conflict.
C8_SubmitBeforeCancel ==
    ExitAction \in {"SELL", "COVER"} =>
        /\ Len(calls) >= 1 => 1 \in MarketSubmits
        /\ \A n \in Cancels :
               \E m \in MarketSubmits : m < n /\ calls[m].outcome = "conflict"

\* C8 (amended): for a SELL order the first and only gateway call is the
\* submission of the market order and no bracket is cancelled; for a COVER
\* order the first gateway call is the listing of the ticker's open orders
\* and every cancellation of a bracket comes before the market order is
\* submitted, with no rejection before it.
C8_CoverCancelsFirst ==
    /\ ExitAction = "SELL" => \A n \in 1..Len(calls) : n = 1 /\ n \in MarketSubmits
    /\ ExitAction = "COVER" =>
           /\ Len(calls) >= 1 => calls[1].op = "get_all_orders"
           /\ \A n \in Cancels : \A m \in MarketSubmits : n < m

\* C8 witness: a COVER has cancelled a bracket and then submitted its
\* market order.
C8_Witness ==
    /\ epc = "done"
    /\ ExitAction = "COVER"
    /\ Cancels # {}
    /\ MarketSubmits # {}

\* C9 (as claimed): brackets are cancelled only while shortfall remains
\* (what was freed before is less than the exit quantity), and a remainder
\* re-submitted is the quantity of the bracket cancelled last minus what
\* was still needed from it.
C9_FreedEqualsShortfall ==
    (epc = "done" /\ ExitAction = "COVER") =>
        /\ \A n \in Cancels : FreedBefore(n) < order_dict.quantity.v
        /\ \A r \in Reestablishes :
               \E n \in Cancels :
                   calls[r].qty = calls[n].qty - (order_dict.quantity.v - FreedBefore(n))

\* C9 (amended): a COVER counts every listed bracket it reaches, whatever
\* the exit quantity: the reserved total is the sum of the quantities of the
\* brackets whose cancellation was called, every bracket is cancelled when
\* no gateway call fails, and a re-submitted remainder is the reserved total
\* minus the exit quantity.
C9_RemainderIsReservedMinusExit ==
    ExitAction = "COVER" =>
        /\ total_reserved = SumQty(Cancels)
        /\ \A r \in Reestablishes :
               /\ calls[r].qty = total_reserved - order_dict.quantity.v
               /\ calls[r].qty > 0
        /\ (epc = "done" /\ \A n \in 1..Len(calls) : calls[n].outcome = "ok") =>
               \A i \in 1..Len(open_orders) :
                   open_orders[i].order_class = "bracket" => i \in canceled

\* C9 witness: exit of 20 against brackets of 15 and 50, both cancelled, 45
\* re-submitted.
C9_Witness ==
    /\ epc = "done"
    /\ ExitAction = "COVER"
    /\ order_dict.quantity = Num(2000)
    /\ Len(open_orders) = 2
    /\ open_orders[1].qty = 1500 /\ open_orders[2].qty = 5000
    /\ canceled = {1, 2}
    /\ \E r \in Reestablishes : calls[r].qty = 4500 /\ calls[r].outcome = "ok"

\* C10 (as claimed): an exit order rejected with an inventory conflict is
\* submitted a second time, every remainder order comes after a submission
\* of the exit order, and the exit order is submitted at most twice.
C10_ResubmittedOnce ==
    (epc = "done" /\ ExitAction \in {"SELL", "COVER"}) =>
        /\ (\E m \in MarketSubmits : calls[m].outcome = "conflict") =>
               Cardinality(MarketSubmits) = 2
        /\ \A r \in Reestablishes : \E m \in MarketSubmits : m < r
        /\ Cardinality(MarketSubmits) <= 2

\* C10 (amended): an exit order is submitted exactly once, as the last
\* gateway call of execute_trade, after every cancellation and after any
\* remainder order; a rejected submission is not repeated.
C10_SubmittedOnce ==
    ExitAction \in {"SELL", "COVER"} =>
        /\ Cardinality(MarketSubmits) <= 1
        /\ epc = "done" <=> MarketSubmits = {Len(calls)}
        /\ \A m \in MarketSubmits :
               \A n \in Cancels \cup Reestablishes : n < m

\* C10 witness: a COVER has cancelled, re-submitted a remainder, and its
\* market order was rejected with an inventory conflict: None is returned.
C10_Witness ==
    /\ epc = "done"
    /\ ExitAction = "COVER"
    /\ Reestablishes # {}
    /\ calls[Len(calls)].purpose = "exit"
    /\ calls[Len(calls)].outcome = "conflict"
    /\ result = "null"

\* C11 (as claimed): an order submitted to re-establish the remainder of
\* cancelled brackets carries a take-profit leg and no stop-loss leg.
C11_TakeProfitOnly ==
    \A r \in Reestablishes :
        /\ IsNum(calls[r].take_profit)
        /\ calls[r].stop_price = None
        /\ calls[r].stop_limit = None

\* C11 (amended): an order submitted to re-establish the remainder is a
\* bracket order with both legs: the take-profit limit and the stop price
\* are those kept from the original bracket, and the stop-loss leg has a
\* limit 1% off its stop price (below it, the side being the buy side of
\* the COVER).
C11_BothLegsRecreated ==
    \A r \in Reestablishes :
        /\ calls[r].order_class = "bracket"
        /\ calls[r].take_profit = original_bracket.take_profit
        /\ IsNum(calls[r].take_profit)
        /\ calls[r].stop_price = original_bracket.stop_loss
        /\ IsNum(calls[r].stop_price)
        /\ calls[r].stop_limit = Num(RoundDiv(calls[r].stop_price.v * 99, 100))

\* C11 witness: a remainder order was accepted with a stop price of 600.00
\* and a stop limit of 594.00.
C11_Witness ==
    \E r \in Reestablishes :
        /\ calls[r].outcome = "ok"
        /\ calls[r].stop_price = Num(60000)
        /\ calls[r].stop_limit = Num(59400)

EntrySubmits ==
    {n \in 1..Len(calls) : calls[n].op = "submit_order" /\ calls[n].purpose = "entry"}

RECURSIVE ReservedBefore(_)
ReservedBefore(i) ==
    IF i <= 1 THEN 0
    ELSE ReservedBefore(i - 1) +
         (IF open_orders[i - 1].order_class = "bracket" THEN open_orders[i - 1].qty ELSE 0)

\* the listed bracket that is only partially needed by the exit quantity
PartiallyNeeded(i) ==
    /\ open_orders[i].order_class = "bracket"
    /\ ReservedBefore(i) < order_dict.quantity.v
    /\ ReservedBefore(i) + open_orders[i].qty > order_dict.quantity.v

\* C18 (as claimed): the order re-submitted for the remainder carries the
\* take-profit price and the side of the bracket that was only partially
\* needed.
C18_RemainderFromPartialBracket ==
    \A r \in Reestablishes :
        (\A n \in 1..(r - 1) : calls[n].outcome = "ok") =>
        \E i \in 1..Len(open_orders) :
            /\ PartiallyNeeded(i)
            /\ calls[r].take_profit = open_orders[i].take_profit
            /\ calls[r].side = open_orders[i].side

RECURSIVE CanceledQty(_)
CanceledQty(S) ==
    IF S = {} THEN 0
    ELSE LET i == CHOOSE x \in S : TRUE IN open_orders[i].qty + CanceledQty(S \ {i})

\* C19 (as claimed): the reserved total is the sum of the quantities of the
\* brackets the broker has cancelled, also after a failed listing or a
\* failed cancel, and a re-established quantity is that sum minus the exit
\* quantity.
C19_ReservedCountsCancelledOnly ==
    ExitAction = "COVER" =>
        /\ total_reserved = CanceledQty(canceled)
        /\ \A r \in Reestablishes :
               calls[r].qty = CanceledQty(canceled) - order_dict.quantity.v

----------------------------------------------------------------------------
\* main (src/trading_bot.py, lines 276-345): the market-status gate, the
\* gathering of the inputs, validate_trades, and the loop that calls
\* execute_trade for every order returned.  The steps of execute_trade are
\* the actions above.

MaxMainTrades == 2
MaxMainOpenOrders == 1

\* the answers of the market-status request: status 0 stands for a request
\* that raised; isOpen is the field of the JSON body
MarketStatuses ==
    {[status |-> 0, isOpen |-> "missing"], [status |-> 500, isOpen |-> "false"],
     [status |-> 200, isOpen |-> "false"], [status |-> 200, isOpen |-> "true"],
     [status |-> 200, isOpen |-> "missing"]}

\* A faulty variant of market_closed: a body without isOpen counts as closed.
market_closed_default(ms) == ms.status = 200 /\ ms.isOpen # "true"

\* lines 283-288: market_status.get("isOpen", True) == False on a 200
market_closed(ms) == ms.status = 200 /\ ms.isOpen = "false"

\* A faulty variant of loop_next: an exception of execute_trade leaves the loop.
loop_next_abort(res) == IF res = "raised" THEN "abort" ELSE "next"

\* lines 340-345: the loop goes on whatever execute_trade did
loop_next(res) == "next"

MainIntents ==
    [ticker : {"NVDA"}, action : {"BUY", "COVER", "HOLD"},
     quantity : {Num(2000)}, stop_loss : {None},
     take_profits_price : {Num(25000)}, order_target_price : {None}]

MainPortfolios ==
    [buying_power : {Num(1500000)},
     positions : {<<>>, <<[ticker |-> "NVDA", qty |-> -5000]>>}]

MainBrokerOrders ==
    {[order_class |-> "bracket", qty |-> 5000, take_profit |-> Num(50000),
      stop_loss |-> Num(60000), details_ok |-> TRUE, side |-> "sell"],
     [order_class |-> "bracket", qty |-> 1500, take_profit |-> Num(48000),
      stop_loss |-> Num(60000), details_ok |-> TRUE, side |-> "sell"],
     [order_class |-> "simple", qty |-> 1500, take_profit |-> Num(48000),
      stop_loss |-> Num(60000), details_ok |-> TRUE, side |-> "sell"]}

InitMain ==
    /\ trades = <<>>
    /\ trades0 = <<>>
    /\ quote_data = <<>>
    /\ portfolio_info = [buying_power |-> None, positions |-> <<>>]
    /\ finnhub = <<>>
    /\ vpc = "off"
    /\ ret1 = NoReturn
    /\ ret2 = NoReturn
    /\ order_dict = [ticker |-> "", action |-> "", quantity |-> None,
                     stop_loss |-> None, take_profits_price |-> None]
    /\ open_orders \in SeqsUpTo(MainBrokerOrders, MaxMainOpenOrders)
    /\ canceled = {}
    /\ epc = "off"
    /\ k = 0
    /\ total_reserved = 0
    /\ original_bracket = None
    /\ calls = <<>>
    /\ result = "none"
    /\ mpc = "status"
    /\ market_status = NoStatus
    /\ fetched = FALSE
    /\ ti = 0
    /\ attempts = <<>>

\* lines 279-291: the market-status request; main returns when it answers
\* 200 with isOpen false, and goes on otherwise (an exception is logged)
MarketStatus ==
    /\ mpc = "status"
    /\ \E ms \in MarketStatuses :
        /\ market_status' = ms
        /\ mpc' = IF market_closed(ms) THEN "closed" ELSE "trending"
    /\ UNCHANGED <<vvars, evars, fetched, ti, attempts>>

\* line 296: get_trending_stocks calls the advisory service, outside any try
GetTrending ==
    /\ mpc = "trending"
    /\ \E ok \in BOOLEAN : mpc' = IF ok THEN "gather" ELSE "raised"
    /\ UNCHANGED <<vvars, evars, market_status, fetched, ti, attempts>>

\* lines 300-333: the portfolio, the quotes, and the intents parsed from the
\* advisory service's answer; a failing call of that service ends main
GatherInputs ==
    /\ mpc = "gather"
    /\ fetched' = TRUE
    /\ \E ok \in BOOLEAN :
        IF ok
        THEN /\ portfolio_info' \in MainPortfolios
             /\ \E T \in SUBSET {"NVDA"} :
                    quote_data' = [t \in T |-> [current_price |-> Num(20000)]]
             /\ trades' \in SeqsUpTo(MainIntents, MaxMainTrades)
             /\ trades0' = trades'
             /\ vpc' = "input"
             /\ mpc' = "validate"
        ELSE /\ mpc' = "raised"
             /\ UNCHANGED <<portfolio_info, quote_data, trades, trades0, vpc>>
    /\ UNCHANGED <<finnhub, ret1, ret2, evars, market_status, ti, attempts>>

\* lines 336-340: validate_trades, whose exception ends main, and the start
\* of the loop over the orders returned
MainValidate ==
    /\ mpc = "validate"
    /\ \E fh \in Finnhub :
        LET r == validate_trades(trades, quote_data, portfolio_info, fh)
        IN  /\ finnhub' = Append(finnhub, fh)
            /\ trades' = r.trades
            /\ ret1' = [raised |-> r.raised, out |-> r.out, orders |-> r.orders]
            /\ vpc' = "once"
            /\ IF r.raised THEN
                   /\ mpc' = "raised"
                   /\ UNCHANGED <<ti, order_dict, epc>>
               ELSE IF r.orders = <<>> THEN
                   /\ mpc' = "end"
                   /\ UNCHANGED <<ti, order_dict, epc>>
               ELSE
                   /\ mpc' = "execute"
                   /\ ti' = 1
                   /\ order_dict' = r.orders[1]
                   /\ epc' = "start"
    /\ UNCHANGED <<trades0, quote_data, portfolio_info, ret2, open_orders, canceled,
                   k, total_reserved, original_bracket, calls, result,
                   market_status, fetched, attempts>>

\* lines 340-345: execute_trade has returned or raised (the exception is
\* caught and logged); the loop takes the next order or ends
TradeDone ==
    /\ mpc = "execute"
    /\ epc = "done"
    /\ attempts' = Append(attempts, [index |-> ti, result |-> result])
    /\ IF loop_next(result) = "abort" THEN
           /\ mpc' = "raised"
           /\ epc' = "off"
           /\ UNCHANGED <<ti, order_dict, k, total_reserved, original_bracket, result>>
       ELSE IF ti < Len(ret1.orders) THEN
           /\ mpc' = "execute"
           /\ ti' = ti + 1
           /\ order_dict' = ret1.orders[ti + 1]
           /\ epc' = "start"
           /\ k' = 0
           /\ total_reserved' = 0
           /\ original_bracket' = None
           /\ result' = "none"
       ELSE
           /\ mpc' = "end"
           /\ epc' = "off"
           /\ UNCHANGED <<ti, order_dict, k, total_reserved, original_bracket, result>>
    /\ UNCHANGED <<vvars, open_orders, canceled, calls, market_status, fetched>>

NextMain ==
    \/ MarketStatus
    \/ GetTrending
    \/ GatherInputs
    \/ MainValidate
    \/ Start
    \/ SubmitBracket
    \/ GetAllOrders
    \/ SkipOrder
    \/ CancelBracket
    \/ Reestablish
    \/ SubmitMarket
    \/ TradeDone

SpecMain == InitMain /\ [][NextMain]_vars

----------------------------------------------------------------------------
\* Claims about main

IsPrefix(a, b) == Len(a) <= Len(b) /\ \A n \in 1..Len(a) : a[n] = b[n]

\* the loop of lines 340-345 takes the orders one by one, in list order
AttemptsInOrder ==
    /\ \A n \in 1..Len(attempts) : attempts[n].index = n
    /\ mpc = "execute" =>
           /\ ti = Len(attempts) + 1
           /\ ti <= Len(ret1.orders)
           /\ order_dict = ret1.orders[ti]
    /\ attempts # <<>> => mpc \in {"execute", "end"}
    /\ (mpc = "end" /\ vpc = "once") => Len(attempts) = Len(ret1.orders)

\* C12: execute_trade is called for every returned order exactly once and
\* in list order; a rejection, an invalid action or an exception in one
\* call never ends the loop, and nothing that an earlier call did (its
\* gateway calls, its cancellations, its outcome) is taken back.
C12_EveryOrderAttempted ==
    /\ []AttemptsInOrder
    /\ [][/\ IsPrefix(calls, calls')
          /\ canceled \subseteq canceled'
          /\ IsPrefix(attempts, attempts')]_vars

\* C12 witness: the run has ended after two orders; execute_trade raised
\* for the first one and returned the broker's order for the second.
C12_Witness ==
    /\ mpc = "end"
    /\ Len(attempts) = 2
    /\ attempts[1].result = "raised"
    /\ attempts[2].result = "order"

\* the lookup succeeded and reported the market closed
ReportsClosed == market_status.status = 200 /\ market_status.isOpen = "false"

\* C20: when the market-status lookup answers 200 and reports the market
\* closed, main returns at once: the portfolio is not fetched, nothing is
\* validated, no gateway call is made.  When the lookup fails or does not
\* report closed, main does not return there: it goes on with line 296, and
\* a run that reaches its end has fetched the portfolio, validated, and
\* called execute_trade for every order returned.
C20_ClosedMarketEndsRun ==
    /\ (mpc # "status" /\ ReportsClosed) =>
           /\ mpc = "closed"
           /\ ~fetched
           /\ vpc = "off"
           /\ calls = <<>>
           /\ attempts = <<>>
    /\ (mpc # "status" /\ ~ReportsClosed) => mpc # "closed"
    /\ mpc = "end" =>
           /\ fetched
           /\ vpc = "once"
           /\ Len(attempts) = Len(ret1.orders)

\* C20 witness: the lookup answered 200 without the isOpen field, and the
\* run went on to validate and to submit an order.
C20_Witness ==
    /\ market_status = [status |-> 200, isOpen |-> "missing"]
    /\ mpc = "end"
    /\ \E n \in 1..Len(calls) : calls[n].op = "submit_order"

====
